---- MODULE Spec2Model ----
(***************************************************************************)
(* Model of src/Trader.py: the cycle orchestrator Trader.run, the          *)
(* mean-reversion strategy compute_rainforest_orders and the               *)
(* autoregressive strategy compute_model_based_orders.                     *)
(*                                                                         *)
(* Numbers.  Order-book prices are integers.  A mid-price is               *)
(* (best_bid + best_ask) / 2, so every price observation is a multiple of  *)
(* one half: an observation is stored as the integer h that stands for the *)
(* number h / 2 ("half units").  Arithmetic is carried out exactly, over   *)
(* the rationals, with numerators and denominators kept apart; the         *)
(* rounding of the floating-point operations of the source is not          *)
(* modelled.                                                               *)
(*                                                                         *)
(* Text and JSON.  A blob (the traderData text) is either [bad |-> t], a   *)
(* text json.loads rejects, or [json |-> v], the text of the JSON document *)
(* v.  A JSON document and the Python value it decodes to are written      *)
(*     [num |-> x]    a number: a price observation counts halves (h), a   *)
(*                    position counts units                                *)
(*     [null |-> TRUE]                                                     *)
(*     [str |-> w]    a string, w the sequence of its words                *)
(*     [list |-> s]   a list, s the sequence of its items                  *)
(*     [obj |-> f]    an object, f a function from its keys to its values  *)
(*     [params |-> "pretrained"]  the object {"intercept": 0.399...,       *)
(*                    "coefficients": [...]} of Trader.py lines 151-154    *)
(***************************************************************************)
EXTENDS Integers, Sequences, FiniteSets, TLC

VARIABLES
    traderData,  \* the blob the harness holds and passes to the next call
    last,        \* the arguments of the last call ([fn |-> "none"] at first)
    ret,         \* what the last call returned, or [raised |-> TRUE]
    cycles,      \* number of calls made so far
    invoked,     \* number of strategy invocations so far
    orderLog,    \* quantities of the orders the autoregressive strategy
                 \* emitted so far, oldest first
    capped       \* the blob and the last outcome of a trader whose stored
                 \* price history is cut to its last window_size entries

vars == <<traderData, last, ret, cycles, invoked, orderLog, capped>>

----------------------------------------------------------------------------
(* Bounds of the model *)

\* The rolling window of the mean-reversion strategy.  The source's default
\* is 20 (Trader.py line 51); the model runs the same code with a short
\* window so that full windows are reached within the explored cycles.
window_size == 5

\* Cycles explored: two beyond the first full window.
MaxCycles == window_size + 2

(* Program constants *)
base_quantity == 10
lag == 4
threshold == 1
max_position == 50
Conversions == 1

target_product == "RAINFOREST_RESIN"
OtherProduct == "KELP"
Products == {target_product, OtherProduct}

(* Input domains *)
Prices == {1, 2}
BidQuantities == {3}
AskQuantities == {-3}

None == [none |-> TRUE]

----------------------------------------------------------------------------
(* Python built-ins used by the source *)

Max(S) == CHOOSE x \in S : \A y \in S : y <= x
Min(S) == CHOOSE x \in S : \A y \in S : x <= y
Abs(x) == IF x < 0 THEN -x ELSE x

RECURSIVE Sum(_)
Sum(s) == IF s = <<>> THEN 0 ELSE Head(s) + Sum(Tail(s))

\* int(x ** 0.5) for an integer x >= 0
Isqrt(x) == CHOOSE k \in 0..x : k * k <= x /\ x < (k + 1) * (k + 1)

\* the whole sequence, no slice taken
LastNAll(s, n) == s

\* s[-n:]
LastN(s, n) == IF Len(s) <= n THEN s ELSE SubSeq(s, Len(s) - n + 1, Len(s))

IsObj(v) == "obj" \in DOMAIN v
IsList(v) == "list" \in DOMAIN v
IsStr(v) == "str" \in DOMAIN v
IsNum(v) == "num" \in DOMAIN v

Num(h) == [num |-> h]
EmptyList == [list |-> <<>>]
EmptyDict == [obj |-> <<>>]

\* `key in v` raises TypeError unless v is a dict, a list or a str
InRaises(v) == ~(IsObj(v) \/ IsList(v) \/ IsStr(v))

\* `key in v`: a key of the dict, an item of the list, a substring of the str
In(key, v) ==
    IF IsObj(v) THEN key \in DOMAIN v.obj
    ELSE IF IsList(v) THEN \E i \in DOMAIN v.list : v.list[i] = [str |-> <<key>>]
    ELSE \E i \in DOMAIN v.str : v.str[i] = key

\* d[key] = value on a dict
SetItem(d, key, value) ==
    [obj |-> [k \in DOMAIN d.obj \cup {key} |-> IF k = key THEN value ELSE d.obj[k]]]

\* json.loads: the decoded value, or a raised JSONDecodeError
json_loads(text) ==
    IF "json" \in DOMAIN text THEN [ok |-> TRUE, value |-> text.json]
    ELSE [ok |-> FALSE]

\* json.dumps
json_dumps(value) == [json |-> value]

Order(symbol, price, quantity) ==
    [symbol |-> symbol, price |-> price, quantity |-> quantity]

Raised == [raised |-> TRUE]

----------------------------------------------------------------------------
(* Trader.run, lines 25-34: the mid-price of an order book, in half units *)

\* a mid-price that takes the lowest bid for the best one
MidPriceWorstBid(order_depth) ==
    LET bids == DOMAIN order_depth.buy_orders
        asks == DOMAIN order_depth.sell_orders
    IN  IF bids # {} /\ asks # {} THEN Num(Min(bids) + Min(asks))
        ELSE IF asks # {} THEN Num(2 * Min(asks))
        ELSE IF bids # {} THEN Num(2 * Min(bids))
        ELSE None

\* a mid-price that starts from 0 instead of None
MidPriceZero(order_depth) ==
    LET bids == DOMAIN order_depth.buy_orders
        asks == DOMAIN order_depth.sell_orders
    IN  IF bids # {} /\ asks # {} THEN Num(Max(bids) + Min(asks))
        ELSE IF asks # {} THEN Num(2 * Min(asks))
        ELSE IF bids # {} THEN Num(2 * Max(bids))
        ELSE Num(0)

MidPrice(order_depth) ==
    LET bids == DOMAIN order_depth.buy_orders
        asks == DOMAIN order_depth.sell_orders
    IN  IF bids # {} /\ asks # {} THEN Num(Max(bids) + Min(asks))
        ELSE IF asks # {} THEN Num(2 * Min(asks))
        ELSE IF bids # {} THEN Num(2 * Max(bids))
        ELSE None

----------------------------------------------------------------------------
(* compute_rainforest_orders, lines 51-112 (window_size and base_quantity  *)
(* are its default arguments)                                              *)

\* lines 69-74: the decoded history, default-initialised when the try block
\* raises (json.loads fails, `in` is applied to a scalar, or the item
\* assignment is applied to a list or a str)
LoadRainforestHistory(trader_data) ==
    LET parsed == json_loads(trader_data)
        default == SetItem(EmptyDict, "rainforest_prices", EmptyList)
    IN  IF ~parsed.ok THEN default
        ELSE LET history == parsed.value
             IN  IF InRaises(history) THEN default
                 ELSE IF In("rainforest_prices", history) THEN history
                 ELSE IF IsObj(history)
                      THEN SetItem(history, "rainforest_prices", EmptyList)
                 ELSE default

\* history[key].append(x) raises: history is a str or a list (TypeError), or
\* history[key] is no list (AttributeError)
AppendRaises(history, key) ==
    ~IsObj(history) \/ ~IsList(history.obj[key])

\* an append that keeps the last window_size items only
AppendToWindow(history, key, x) ==
    SetItem(history, key,
            [list |-> LastN(Append(history.obj[key].list, x), window_size)])

\* line 77 / line 157: history[key].append(x)
AppendTo(history, key, x) ==
    SetItem(history, key, [list |-> Append(history.obj[key].list, x)])

\* a window taken for full one observation early
EnoughDataEarly(prices) == Len(prices) >= window_size - 1

\* line 81: len(history["rainforest_prices"]) >= window_size
EnoughData(prices) == Len(prices) >= window_size

\* sum(...) over the window raises TypeError: some item is not a number
SumRaises(recent_prices) ==
    \E i \in DOMAIN recent_prices : ~IsNum(recent_prices[i])

\* line 83: sum(recent_prices), in half units; rolling_mean is this sum
\* divided by 2 * window_size
rolling_sum(recent_prices) ==
    Sum([i \in DOMAIN recent_prices |-> recent_prices[i].num])

\* line 85 with window_size = n: rolling_std ** 2 multiplied by 4 * n ** 3
rolling_var_of(n, recent_prices) ==
    Sum([i \in DOMAIN recent_prices |->
            (n * recent_prices[i].num - rolling_sum(recent_prices))
          * (n * recent_prices[i].num - rolling_sum(recent_prices))])

\* line 85: rolling_std ** 2 multiplied by 4 * window_size ** 3
rolling_var(recent_prices) == rolling_var_of(window_size, recent_prices)

\* line 88 with window_size = n: the exact value of z_score, kept as its
\* sign and its square num / den; 0 when rolling_std = 0
z_score_of(n, mid_price, recent_prices) ==
    LET d == n * mid_price.num - rolling_sum(recent_prices)
        q == rolling_var_of(n, recent_prices)
    IN  IF q # 0
        THEN [sign |-> IF d < 0 THEN -1 ELSE IF d > 0 THEN 1 ELSE 0,
              num |-> n * d * d, den |-> q]
        ELSE [sign |-> 0, num |-> 0, den |-> 1]

\* line 88
z_score(mid_price, recent_prices) ==
    z_score_of(window_size, mid_price, recent_prices)

\* 2 * abs(z) is exactly an integer, for a z over a window of n entries
OnBoundaryOf(n, z) ==
    z.sign # 0 /\ \E k \in 1..(2 * n) : k * k * z.den = 4 * z.num

\* 2 * abs(z) is exactly an integer (1.5 = 3 / 2 is among these values of z)
OnBoundary(z) == OnBoundaryOf(window_size, z)

\* lines 83-88 are floating-point operations: the computed z_score is the
\* exact one up to a rounding error far smaller than the distance between
\* two values of the model that differ.  The error decides the comparisons
\* of lines 97, 101 and 106 only where the exact value lies on their
\* boundary, and there its sign depends on the prices: err is the sign of
\* abs(computed z_score) - abs(exact z_score).
Errs == {-1, 0, 1}

\* the computed z_score when the rounding error has a sign of errs
RoundedIn(errs, z) ==
    {[sign |-> z.sign, num |-> z.num, den |-> z.den, err |-> e] :
        e \in IF OnBoundary(z) THEN errs ELSE {0}}

Rounded(z) == RoundedIn(Errs, z)

\* line 97: max(1, int(abs(z_score) * 2))
scale_factor(z) ==
    LET k == Isqrt((4 * z.num) \div z.den)
    IN  Max({1, IF k * k * z.den = 4 * z.num /\ z.err < 0 THEN k - 1 ELSE k})

\* abs(z_score) > 1
BeyondOne(z) == z.num > z.den

\* abs(z_score) > 1.5
Beyond(z) == 4 * z.num > 9 * z.den \/ (4 * z.num = 9 * z.den /\ z.err > 0)

\* z_score < 1.5, the sign of the threshold lost
OversoldNoMinus(z) == z.sign <= 0 \/ ~Beyond(z)

\* line 101: z_score < -1.5
Oversold(z) == z.sign < 0 /\ Beyond(z)

\* line 106: z_score > 1.5
Overbought(z) == z.sign > 0 /\ Beyond(z)

\* lines 97-109: the orders of a cycle with a full window
RainforestSignal(product, order_depth, z) ==
    LET order_quantity == base_quantity * scale_factor(z)
        bids == DOMAIN order_depth.buy_orders
        asks == DOMAIN order_depth.sell_orders
    IN  IF Oversold(z) /\ asks # {}
        THEN <<Order(product, Min(asks), order_quantity)>>
        ELSE IF Overbought(z) /\ bids # {}
        THEN <<Order(product, Max(bids), -order_quantity)>>
        ELSE <<>>

\* lines 68-112, the outcomes of a call whose rounding error has a sign
\* of errs: Raised, or the returned pair
rainforest_outcomes(errs, product, order_depth, mid_price, trader_data) ==
    LET loaded == LoadRainforestHistory(trader_data)
    IN  IF AppendRaises(loaded, "rainforest_prices") THEN {Raised}
        ELSE
        LET history == AppendTo(loaded, "rainforest_prices", mid_price)
            prices == history.obj["rainforest_prices"].list
            recent_prices == LastN(prices, window_size)
        IN  IF ~EnoughData(prices)
            THEN {[raised |-> FALSE, orders |-> <<>>,
                   new_trader_data |-> json_dumps(history)]}
            ELSE IF SumRaises(recent_prices) THEN {Raised}
            ELSE {[raised |-> FALSE,
                   orders |-> RainforestSignal(product, order_depth, z),
                   new_trader_data |-> json_dumps(history)] :
                     z \in RoundedIn(errs, z_score(mid_price, recent_prices))}

\* the outcomes of a call
compute_rainforest_orders(product, order_depth, mid_price, trader_data) ==
    rainforest_outcomes(Errs, product, order_depth, mid_price, trader_data)

\* the computed z_score over a window of n entries
RoundedOf(n, z) ==
    {[sign |-> z.sign, num |-> z.num, den |-> z.den, err |-> e] :
        e \in IF OnBoundaryOf(n, z) THEN Errs ELSE {0}}

\* lines 68-112 with the argument window_size = n: the outcomes of a call
windowed_outcomes(n, product, order_depth, mid_price, trader_data) ==
    LET loaded == LoadRainforestHistory(trader_data)
    IN  IF AppendRaises(loaded, "rainforest_prices") THEN {Raised}
        ELSE
        LET history == AppendTo(loaded, "rainforest_prices", mid_price)
            prices == history.obj["rainforest_prices"].list
            recent_prices == LastN(prices, n)
        IN  IF ~(Len(prices) >= n)
            THEN {[raised |-> FALSE, orders |-> <<>>,
                   new_trader_data |-> json_dumps(history)]}
            ELSE IF SumRaises(recent_prices) THEN {Raised}
            ELSE {[raised |-> FALSE,
                   orders |-> RainforestSignal(product, order_depth, z),
                   new_trader_data |-> json_dumps(history)] :
                     z \in RoundedOf(n, z_score_of(n, mid_price, recent_prices))}

----------------------------------------------------------------------------
(* compute_model_based_orders, lines 115-209 (lag, base_quantity,          *)
(* threshold and max_position are its default arguments)                   *)

\* Real numbers of the strategy are kept as integers in units of
\* 1 / (2 * Scale): a price observation h stands for h * Scale of them
Scale == 100000000

\* line 153: the coefficients, multiplied by Scale
Coefficients == <<81988331, 12488140, 7095404, -1592438>>

\* line 152: 2 * Scale * intercept = 79806609.67..., no integer: the
\* integers next below and next above it
Intercept2Lo == 79806609
Intercept2Hi == 79806610

\* lines 151-154
ModelParams == [params |-> "pretrained"]

\* lines 144-154: `if key not in history: history[key] = default`, on a
\* history that an earlier statement may have raised from
SetDefault(history, key, default) ==
    IF history = Raised THEN Raised
    ELSE IF InRaises(history) THEN Raised
    ELSE IF In(key, history) THEN history
    ELSE IF IsObj(history) THEN SetItem(history, key, default)
    ELSE Raised

\* lines 138-154
LoadModelHistory(trader_data) ==
    LET parsed == json_loads(trader_data)
        history == IF parsed.ok THEN parsed.value ELSE EmptyDict
    IN  SetDefault(SetDefault(SetDefault(history, "model_history", EmptyList),
                              "position", Num(0)),
                   "model_params", ModelParams)

\* lines 164-165: history["model_params"]["intercept"] and ["coefficients"]
\* raise on every value of the model but the pre-trained parameters
ParamsRaise(history) == history.obj["model_params"] # ModelParams

\* a prediction made one observation early
EnoughLagsEarly(prices) == Len(prices) >= lag - 1

\* line 162: len(history["model_history"]) >= lag
EnoughLags(prices) == Len(prices) >= lag

\* line 168 without the intercept: sum(c * p for c, p in zip(...)), times
\* 2 * Scale; zip stops at the end of the shorter sequence
Weighted(recent_prices) ==
    Sum([i \in 1..Min({Len(Coefficients), Len(recent_prices)}) |->
            Coefficients[i] * recent_prices[i].num])

\* line 172 without the intercept: (predicted_price - intercept - mid_price)
\* times 2 * Scale
deviation(mid_price, recent_prices) ==
    Weighted(recent_prices) - Scale * mid_price.num

\* line 187: deviation > threshold
DeviationAbove(dev) == dev + Intercept2Hi > 2 * Scale * threshold

\* deviation < 0, the threshold left out
DeviationBelowZero(dev) == dev + Intercept2Lo < 0

\* line 197: deviation < -threshold
DeviationBelow(dev) == dev + Intercept2Lo < -(2 * Scale * threshold)

\* lines 178-181 with base_quantity = base, a divisor of Scale:
\* min(int(base * abs(deviation)), max_position)
OrderQuantity(base, dev) ==
    LET magnitude == IF dev + Intercept2Hi > 0 THEN dev + Intercept2Lo
                     ELSE -(dev + Intercept2Hi)
    IN  Min({(magnitude \div (2 * (Scale \div base))), max_position})

\* lines 178-181: order_quantity, which no later statement reads
order_quantity(dev) == OrderQuantity(base_quantity, dev)

\* an order never larger than order_quantity
TradeSizeScaled(quantity, trade_size) == Min({quantity, trade_size})

\* lines 192-194 and 202-204: the size of the order and of the change of
\* position is trade_size, whatever order_quantity is
TradeSize(quantity, trade_size) == trade_size

\* the position already held left out of the size
BuySizeWhole(current_position) == max_position

\* lines 188-189: trade_size when the target is max_position
BuySize(current_position) == max_position - current_position

\* the position already held left out of the size
SellSizeWhole(current_position) == max_position

\* lines 198-199: trade_size when the target is -max_position
SellSize(current_position) == current_position - (-max_position)

\* lines 178-204 with base_quantity = base: the orders and the history of a
\* cycle with abs(deviation) above the threshold
ModelSignalWith(base, product, order_depth, dev, history) ==
    LET quantity == OrderQuantity(base, dev)
        current_position == history.obj["position"]
        bids == DOMAIN order_depth.buy_orders
        asks == DOMAIN order_depth.sell_orders
    IN  IF DeviationAbove(dev) /\ asks # {}
        THEN IF ~IsNum(current_position) THEN Raised
             ELSE LET trade_size == BuySize(current_position.num)
                      size == TradeSize(quantity, trade_size)
                  IN  IF trade_size > 0
                      THEN [raised |-> FALSE,
                            orders |-> <<Order(product, Min(asks), size)>>,
                            history |-> SetItem(history, "position",
                                           Num(current_position.num + size))]
                      ELSE [raised |-> FALSE, orders |-> <<>>, history |-> history]
        ELSE IF DeviationBelow(dev) /\ bids # {}
        THEN IF ~IsNum(current_position) THEN Raised
             ELSE LET trade_size == SellSize(current_position.num)
                      size == TradeSize(quantity, trade_size)
                  IN  IF trade_size > 0
                      THEN [raised |-> FALSE,
                            orders |-> <<Order(product, Max(bids), -size)>>,
                            history |-> SetItem(history, "position",
                                           Num(current_position.num - size))]
                      ELSE [raised |-> FALSE, orders |-> <<>>, history |-> history]
        ELSE [raised |-> FALSE, orders |-> <<>>, history |-> history]

\* lines 178-204
ModelSignal(product, order_depth, dev, history) ==
    ModelSignalWith(base_quantity, product, order_depth, dev, history)

\* the outcome of a call: Raised, or the returned pair
compute_model_based_orders(product, order_depth, mid_price, trader_data) ==
    LET loaded == LoadModelHistory(trader_data)
    IN  IF loaded = Raised THEN Raised
        ELSE IF AppendRaises(loaded, "model_history") THEN Raised
        ELSE
        LET history == AppendTo(loaded, "model_history", mid_price)
            prices == history.obj["model_history"].list
            recent_prices == LastN(prices, lag)
        IN  IF ~EnoughLags(prices)
            THEN [raised |-> FALSE, orders |-> <<>>,
                  new_trader_data |-> json_dumps(history)]
            ELSE IF ParamsRaise(history) \/ SumRaises(recent_prices) THEN Raised
            ELSE
            LET dev == deviation(mid_price, recent_prices)
                r == IF DeviationAbove(dev) \/ DeviationBelow(dev)
                     THEN ModelSignal(product, order_depth, dev, history)
                     ELSE [raised |-> FALSE, orders |-> <<>>, history |-> history]
            IN  IF r.raised THEN Raised
                ELSE [raised |-> FALSE, orders |-> r.orders,
                      new_trader_data |-> json_dumps(r.history)]

----------------------------------------------------------------------------
(* Trader.run, lines 7-47: the outcomes of a call *)

\* lines 11-17: an empty order list for every product but the target
IgnoreOthers(order_depths) ==
    [product \in DOMAIN order_depths \ {target_product} |-> <<>>]

\* lines 37 and 44: result[target_product] = orders
SetTarget(result, orders) ==
    [product \in DOMAIN result \cup {target_product} |->
        IF product = target_product THEN orders ELSE result[product]]

\* the outcomes of a call whose rounding error has a sign of errs
run_outcomes(errs, state) ==
    LET result == IgnoreOthers(state.order_depths)
    IN  IF target_product \notin DOMAIN state.order_depths
        THEN {[raised |-> FALSE, result |-> result, conversions |-> Conversions,
               traderData |-> state.traderData]}
        ELSE
        LET order_depth == state.order_depths[target_product]
            mid_price == MidPrice(order_depth)
        IN  IF mid_price = None
            THEN {[raised |-> FALSE,
                   result |-> SetTarget(result, <<>>),
                   conversions |-> Conversions,
                   traderData |-> state.traderData]}
            ELSE
            {IF r.raised THEN Raised
             ELSE [raised |-> FALSE,
                   result |-> SetTarget(result, r.orders),
                   conversions |-> Conversions,
                   traderData |-> r.new_trader_data] :
               r \in rainforest_outcomes(errs, target_product, order_depth,
                                         mid_price, state.traderData)}

\* the outcomes of a call
run(state) == run_outcomes(Errs, state)

----------------------------------------------------------------------------
(* The harness: one call of Trader.run per cycle *)

BookSides(quantities) ==
    UNION {[levels -> {q}] : levels \in SUBSET Prices, q \in quantities}

OrderDepths ==
    [buy_orders : BookSides(BidQuantities), sell_orders : BookSides(AskQuantities)]

EmptyBook == [buy_orders |-> <<>>, sell_orders |-> <<>>]
OneBook == [buy_orders |-> [p \in {1} |-> 3], sell_orders |-> [p \in {2} |-> -3]]

\* the snapshots: beside the other product (whose book is never read), the
\* target with any book, or no target; without the other product, the target
\* with an empty book or a two-sided one, or no product at all
Snapshots ==
    {[product \in Products |->
         IF product = target_product THEN od ELSE EmptyBook] : od \in OrderDepths}
    \cup {[product \in {OtherProduct} |-> EmptyBook]}
    \cup {[product \in {target_product} |-> od] : od \in {EmptyBook, OneBook}}
    \cup {<<>>}

EmptyBlob == [bad |-> ""]

\* the capped trader before its first call
NoCapped == [traderData |-> EmptyBlob, ret |-> [raised |-> FALSE]]

Init ==
    /\ traderData = EmptyBlob
    /\ last = [fn |-> "none"]
    /\ ret = [raised |-> FALSE]
    /\ cycles = 0
    /\ invoked = 0
    /\ orderLog = <<>>
    /\ capped = NoCapped

StrategyInvoked(state) ==
    /\ target_product \in DOMAIN state.order_depths
    /\ MidPrice(state.order_depths[target_product]) # None

\* one cycle of the harness: Trader.run on the snapshot and the held blob
Run(order_depths) ==
    LET state == [traderData |-> traderData, order_depths |-> order_depths]
    IN  /\ ~ret.raised
        /\ \E r \in run(state) :
            /\ ret' = r
            /\ traderData' = IF r.raised THEN traderData ELSE r.traderData
        /\ last' = [fn |-> "run", state |-> state]
        /\ cycles' = cycles + 1
        /\ invoked' = IF StrategyInvoked(state) THEN invoked + 1 ELSE invoked
        /\ UNCHANGED <<orderLog, capped>>

Next == cycles < MaxCycles /\ \E order_depths \in Snapshots : Run(order_depths)

Spec == Init /\ [][Next]_vars

----------------------------------------------------------------------------
(* The strategies called directly, with the held blob *)

Mids == {2, 4, 6}

StrategyBooks ==
    {EmptyBook, OneBook,
     [buy_orders |-> <<>>, sell_orders |-> [p \in {1, 2} |-> -3]],
     [buy_orders |-> [p \in {1, 2} |-> 3], sell_orders |-> <<>>]}

Rainforest(order_depth, mid_price) ==
    /\ ~ret.raised
    /\ \E r \in compute_rainforest_orders(target_product, order_depth,
                                          mid_price, traderData) :
        /\ ret' = r
        /\ traderData' = IF r.raised THEN traderData ELSE r.new_trader_data
    /\ last' = [fn |-> "rainforest", order_depth |-> order_depth,
                mid_price |-> mid_price, trader_data |-> traderData]
    /\ cycles' = cycles + 1
    /\ invoked' = invoked + 1
    /\ UNCHANGED <<orderLog, capped>>

Model(order_depth, mid_price) ==
    LET r == compute_model_based_orders(target_product, order_depth,
                                        mid_price, traderData)
    IN  /\ ~ret.raised
        /\ ret' = r
        /\ traderData' = IF r.raised THEN traderData ELSE r.new_trader_data
        /\ last' = [fn |-> "model", order_depth |-> order_depth,
                    mid_price |-> mid_price, trader_data |-> traderData]
        /\ cycles' = cycles + 1
        /\ invoked' = invoked + 1
        /\ orderLog' = IF r.raised \/ r.orders = <<>> THEN orderLog
                       ELSE Append(orderLog, r.orders[1].quantity)
        /\ UNCHANGED capped

(* The autoregressive strategy as the configured strategy, from the empty  *)
(* blob                                                                    *)

MaxModelCycles == lag + 3

NextModel ==
    /\ cycles < MaxModelCycles
    /\ \E order_depth \in StrategyBooks, mid \in Mids :
           Model(order_depth, Num(mid))

SpecModel == Init /\ [][NextModel]_vars

----------------------------------------------------------------------------
(* One call on any prior blob *)

Str(words) == [str |-> words]
List(items) == [list |-> items]
Null == [null |-> TRUE]
Flat(h, n) == [i \in 1..n |-> Num(h)]

RainforestKey == "rainforest_prices"
ModelKeys == {"model_history", "position", "model_params"}
ExtraKey == "harness_note"
Keys == {RainforestKey, ExtraKey} \cup ModelKeys

\* the values a blob of the model gives to a key
Values(key) ==
    IF key = RainforestKey
    THEN {EmptyList, List(Flat(2, window_size - 1)),
          List(<<Str(<<"abc">>)>> \o Flat(4, window_size - 2)),
          List(<<Str(<<"abc">>)>> \o Flat(4, window_size - 1)),
          Num(5), Null}
    ELSE IF key = "model_history"
    THEN {EmptyList, List(Flat(6, lag - 1)), List(Flat(2, lag - 1)),
          List(<<Null>> \o Flat(2, lag - 2)), Null}
    ELSE IF key = "position"
    THEN {Num(0), Num(max_position), Num(-max_position), Str(<<"flat">>)}
    ELSE IF key = "model_params"
    THEN {ModelParams, Null}
    ELSE {List(<<Num(7), Str(<<"kept">>)>>)}

Absent == [absent |-> TRUE]
Options(key) == {Absent} \cup Values(key)

\* the object that holds the chosen value of every key whose choice is a value
Object(choice) ==
    [obj |-> [k \in {key \in Keys : choice[key] # Absent} |-> choice[k]]]

Objects ==
    {Object([k \in Keys |->
               CASE k = RainforestKey -> r
                 [] k = "model_history" -> h
                 [] k = "position" -> p
                 [] k = "model_params" -> m
                 [] OTHER -> x]) :
        r \in Options(RainforestKey), h \in Options("model_history"),
        p \in Options("position"), m \in Options("model_params"),
        x \in Options(ExtraKey)}

Documents ==
    Objects
    \cup {Num(5), Null, Str(<<"abc">>), Str(<<"see", RainforestKey>>),
          Str(<<"model_history", "position", "model_params">>),
          EmptyList, List(<<Num(1)>>), List(<<Str(<<RainforestKey>>)>>),
          List(<<Str(<<"model_history">>), Str(<<"position">>),
                 Str(<<"model_params">>)>>)}

Blobs == {EmptyBlob, [bad |-> "{"]} \cup {[json |-> v] : v \in Documents}

InitBlob ==
    /\ traderData \in Blobs
    /\ last = [fn |-> "none"]
    /\ ret = [raised |-> FALSE]
    /\ cycles = 0
    /\ invoked = 0
    /\ orderLog = <<>>
    /\ capped = NoCapped

BlobRun ==
    cycles = 0 /\ \E order_depths \in Snapshots : Run(order_depths)

BlobRainforest ==
    /\ cycles = 0
    /\ \E order_depth \in StrategyBooks, mid \in Mids :
           Rainforest(order_depth, Num(mid))

BlobModel ==
    /\ cycles = 0
    /\ \E order_depth \in StrategyBooks, mid \in Mids :
           Model(order_depth, Num(mid))

NextBlob == BlobRun \/ BlobRainforest \/ BlobModel

SpecBlob == InitBlob /\ [][NextBlob]_vars

----------------------------------------------------------------------------
(* Trader.run side by side with a trader that caps the stored history: the *)
(* same code, and after every strategy call the stored rainforest_prices   *)
(* cut to its last window_size entries                                     *)

\* the stored length capped to window_size
CapTo(prices) ==
    [i \in 1..Min({Len(prices), window_size}) |->
        prices[Len(prices) - Min({Len(prices), window_size}) + i]]

Cap(blob) ==
    json_dumps(SetItem(blob.json, RainforestKey,
                       [list |-> CapTo(blob.json.obj[RainforestKey].list)]))

\* the outcomes of a call of the capping trader
capped_run_outcomes(errs, state) ==
    {IF r.raised \/ ~StrategyInvoked(state) THEN r
     ELSE [r EXCEPT !.traderData = Cap(@)] : r \in run_outcomes(errs, state)}

\* the window a call computes on, <<>> when it invokes no strategy
WindowOf(state) ==
    IF StrategyInvoked(state)
    THEN LastN(Append(LoadRainforestHistory(state.traderData)
                          .obj[RainforestKey].list,
                      MidPrice(state.order_depths[target_product])),
               window_size)
    ELSE <<>>

\* the signs the rounding error of a call can have
ErrsOf(state) ==
    IF Len(WindowOf(state)) = window_size
       /\ OnBoundary(z_score(MidPrice(state.order_depths[target_product]),
                             WindowOf(state)))
    THEN Errs ELSE {0}

\* one cycle of both traders on the same snapshot; equal windows are summed
\* by the same floating-point operations and so round alike
CappedRun(order_depths) ==
    LET state == [traderData |-> traderData, order_depths |-> order_depths]
        cstate == [traderData |-> capped.traderData,
                   order_depths |-> order_depths]
    IN  /\ ~ret.raised /\ ~capped.ret.raised
        /\ \E e \in ErrsOf(state) :
           \E ce \in IF WindowOf(cstate) = WindowOf(state) THEN {e}
                     ELSE ErrsOf(cstate) :
           \E r \in run_outcomes({e}, state) :
           \E cr \in capped_run_outcomes({ce}, cstate) :
            /\ ret' = r
            /\ traderData' = IF r.raised THEN traderData ELSE r.traderData
            /\ capped' = [traderData |-> IF cr.raised THEN capped.traderData
                                         ELSE cr.traderData,
                          ret |-> cr]
        /\ last' = [fn |-> "run", state |-> state]
        /\ cycles' = cycles + 1
        /\ invoked' = IF StrategyInvoked(state) THEN invoked + 1 ELSE invoked
        /\ UNCHANGED orderLog

\* the target with each book of StrategyBooks, or no product
CapSnapshots ==
    {[product \in {target_product} |-> od] : od \in StrategyBooks} \cup {<<>>}

NextCapped ==
    cycles < MaxCycles /\ \E order_depths \in CapSnapshots : CappedRun(order_depths)

SpecCapped == Init /\ [][NextCapped]_vars

----------------------------------------------------------------------------
(* compute_rainforest_orders called once with a window_size argument, on   *)
(* a blob that holds a price history                                       *)

\* line 51: the default of window_size
DefaultWindow == 20

WindowSizes == {1, 2, 3, window_size, DefaultWindow}

\* observations the books of the model give: 1, 1.5 and 2
Observations == {Num(2), Num(3), Num(4)}

\* the histories shorter than window_size, and the histories one entry
\* short of the default window that hold a run of one price and then a run
\* of another
Histories ==
    UNION {[1..len -> Observations] : len \in 0..(window_size - 1)}
    \cup {[i \in 1..(DefaultWindow - 1) |-> IF i <= first THEN a ELSE b] :
            first \in 0..(DefaultWindow - 1), a \in Observations,
            b \in Observations}

InitWindowed ==
    /\ traderData \in {json_dumps(SetItem(EmptyDict, "rainforest_prices",
                                          [list |-> prices])) :
                          prices \in Histories}
    /\ last = [fn |-> "none"]
    /\ ret = [raised |-> FALSE]
    /\ cycles = 0
    /\ invoked = 0
    /\ orderLog = <<>>
    /\ capped = NoCapped

Windowed(n, order_depth, mid_price) ==
    /\ cycles = 0
    /\ \E r \in windowed_outcomes(n, target_product, order_depth, mid_price,
                                  traderData) :
        /\ ret' = r
        /\ traderData' = IF r.raised THEN traderData ELSE r.new_trader_data
    /\ last' = [fn |-> "windowed", window_size |-> n,
                order_depth |-> order_depth, mid_price |-> mid_price,
                trader_data |-> traderData]
    /\ cycles' = cycles + 1
    /\ invoked' = invoked + 1
    /\ UNCHANGED <<orderLog, capped>>

NextWindowed ==
    \E n \in WindowSizes, order_depth \in StrategyBooks,
       mid_price \in Observations : Windowed(n, order_depth, mid_price)

SpecWindowed == InitWindowed /\ [][NextWindowed]_vars

----------------------------------------------------------------------------
(* Properties *)

LastRun == last.fn = "run"
Snapshot == last.state.order_depths
PriorBlob == last.state.traderData
TargetPresent == target_product \in DOMAIN Snapshot
TargetBook == Snapshot[target_product]
Bids(order_depth) == DOMAIN order_depth.buy_orders
Asks(order_depth) == DOMAIN order_depth.sell_orders

\* the price history a blob holds
RainforestPrices(blob) == blob.json.obj[RainforestKey].list

\* the result map has exactly the keys of the snapshot: every product but
\* the target maps to an empty order list, and the target, when the snapshot
\* has it, to an empty list or to the order list of the strategy
ResultKeys ==
    /\ DOMAIN ret.result = DOMAIN Snapshot
    /\ \A product \in DOMAIN Snapshot \ {target_product} :
           ret.result[product] = <<>>
    /\ TargetPresent =>
           \/ ret.result[target_product] = <<>>
           \/ \E r \in compute_rainforest_orders(target_product, TargetBook,
                               MidPrice(TargetBook), PriorBlob) :
                  ~r.raised /\ ret.result[target_product] = r.orders

\* the calls of Trader.run that return, return such a result map
ReturnedResultKeys == (LastRun /\ ~ret.raised) => ResultKeys

\* C1: for every snapshot and every prior blob Trader.run returns a result
\* map, and the map has exactly the keys of the snapshot
C1_ResultKeys == LastRun => (~ret.raised /\ ResultKeys)

\* the books with the price levels of order_depth and any quantities
AnyQuantities == {-7, 1, 3}
Requantified(order_depth) ==
    [buy_orders : [Bids(order_depth) -> AnyQuantities],
     sell_orders : [Asks(order_depth) -> AnyQuantities]]

\* C2: the mid-price is (highest bid + lowest ask) / 2 when both sides have
\* levels, the lowest ask when only asks exist, the highest bid when only
\* bids exist, and unknown exactly when both sides are empty; it is the
\* observation the cycle records, and no quantity of the book changes it
C2_MidPrice ==
    (LastRun /\ TargetPresent) =>
        LET bids == Bids(TargetBook)
            asks == Asks(TargetBook)
            mid == MidPrice(TargetBook)
        IN  /\ (bids # {} /\ asks # {}) => mid = Num(Max(bids) + Min(asks))
            /\ (bids = {} /\ asks # {}) => mid = Num(2 * Min(asks))
            /\ (bids # {} /\ asks = {}) => mid = Num(2 * Max(bids))
            /\ (mid = None) <=> (bids = {} /\ asks = {})
            /\ \A other \in Requantified(TargetBook) : MidPrice(other) = mid
            /\ (mid # None /\ ~ret.raised) =>
                   LET prices == RainforestPrices(ret.traderData)
                   IN  prices[Len(prices)] = mid

C2_Witness ==
    /\ LastRun /\ TargetPresent /\ ~ret.raised
    /\ Bids(TargetBook) = {1, 2} /\ Asks(TargetBook) = {1, 2}
    /\ RainforestPrices(ret.traderData)[Len(RainforestPrices(ret.traderData))]
           = Num(3)

\* the target is missing from the snapshot, or its book has no level
NothingToDo == ~TargetPresent \/ (Bids(TargetBook) = {} /\ Asks(TargetBook) = {})

\* C3: a cycle whose snapshot lacks the target, or holds an empty book for
\* it, returns no order for the target, conversions = 1 and the prior blob,
\* whatever that blob is, and invokes no strategy
C3_NothingToDo ==
    (LastRun /\ NothingToDo) =>
        /\ ~ret.raised
        /\ target_product \in DOMAIN ret.result => ret.result[target_product] = <<>>
        /\ ret.conversions = 1
        /\ ret.traderData = PriorBlob
        /\ traderData = PriorBlob
        /\ invoked = 0

C3_Witness ==
    /\ LastRun /\ TargetPresent /\ NothingToDo
    /\ "json" \in DOMAIN PriorBlob /\ IsObj(PriorBlob.json)
    /\ RainforestKey \in DOMAIN PriorBlob.json.obj
    /\ PriorBlob.json.obj[RainforestKey] = List(Flat(2, window_size - 1))
    /\ ret.traderData = PriorBlob

----------------------------------------------------------------------------
(* The mean-reversion signal in exact arithmetic, from the last window_size *)
(* observations x (half units) and the current one m:                       *)
(*     z ^ 2 = D ^ 2 / V,  D = N * m - sum x,  V = N * sum x ^ 2 - (sum x) ^ 2 *)
(* with N = window_size; z has the sign of D, and std = 0 iff V = 0.        *)

StrategyRan == LastRun /\ TargetPresent /\ MidPrice(TargetBook) # None
NewPrices == RainforestPrices(ret.traderData)
WindowFull == Len(NewPrices) >= window_size
Observed == [i \in 1..window_size |->
                NewPrices[Len(NewPrices) - window_size + i].num]
Squares == [i \in 1..window_size |-> Observed[i] * Observed[i]]
ExactD == window_size * MidPrice(TargetBook).num - Sum(Observed)
ExactV == window_size * Sum(Squares) - Sum(Observed) * Sum(Observed)

\* floor(2 * abs(z)), for V > 0
ExactFloor2Z ==
    CHOOSE k \in 0..(2 * window_size) :
        k * k * ExactV <= 4 * ExactD * ExactD
        /\ 4 * ExactD * ExactD < (k + 1) * (k + 1) * ExactV

ExactQuantity == base_quantity * Max({1, ExactFloor2Z})
ExactBelow == ExactV > 0 /\ ExactD < 0 /\ 4 * ExactD * ExactD > 9 * ExactV
ExactAbove == ExactV > 0 /\ ExactD > 0 /\ 4 * ExactD * ExactD > 9 * ExactV

\* C4: with a full window, exactly one BUY of base_quantity *
\* max(1, floor(2 abs(z))) at the best ask iff z < -1.5 and an ask exists;
\* otherwise exactly one SELL of that quantity at the best bid iff z > 1.5
\* and a bid exists; otherwise no order
C4_SignalOrders ==
    (StrategyRan /\ ~ret.raised /\ WindowFull) =>
        ret.result[target_product] =
            IF ExactBelow /\ Asks(TargetBook) # {}
            THEN <<Order(target_product, Min(Asks(TargetBook)), ExactQuantity)>>
            ELSE IF ExactAbove /\ Bids(TargetBook) # {}
            THEN <<Order(target_product, Max(Bids(TargetBook)), -ExactQuantity)>>
            ELSE <<>>

\* the price history of the prior blob (none in a text that does not decode)
PriorPrices ==
    IF "json" \in DOMAIN PriorBlob THEN RainforestPrices(PriorBlob) ELSE <<>>

\* C5: from the empty blob, none of the first window_size - 1 invocations of
\* the mean-reversion strategy emits an order, each of them persists the
\* history with the mid-price appended, an order is emitted at the
\* window_size-th invocation at the earliest, and the history then holds
\* window_size observations
C5_WarmUp ==
    /\ (StrategyRan /\ invoked < window_size) =>
           /\ ~ret.raised
           /\ ret.result[target_product] = <<>>
           /\ NewPrices = Append(PriorPrices, MidPrice(TargetBook))
           /\ Len(NewPrices) = invoked
           /\ traderData = ret.traderData
    /\ (LastRun /\ ~ret.raised /\ TargetPresent
            /\ ret.result[target_product] # <<>>) => invoked >= window_size
    /\ (StrategyRan /\ invoked = window_size) =>
           ~ret.raised /\ Len(NewPrices) = window_size

C5_Witness ==
    /\ StrategyRan /\ ~ret.raised
    /\ invoked = window_size
    /\ ret.result[target_product] # <<>>
    /\ Len(NewPrices) = window_size

\* the window is full and every observation in it is the current mid-price
FlatWindow ==
    /\ WindowFull
    /\ \A i \in 1..window_size : Observed[i] = MidPrice(TargetBook).num

\* the position a blob tracks, if any
TrackedPosition(blob) ==
    IF "json" \in DOMAIN blob /\ IsObj(blob.json)
          /\ "position" \in DOMAIN blob.json.obj
    THEN blob.json.obj["position"]
    ELSE Absent

\* the current mid-price and the window_size - 1 observations recorded
\* before it are all equal
FlatFed ==
    /\ StrategyRan
    /\ Len(PriorPrices) >= window_size - 1
    /\ \A i \in 1..Len(PriorPrices) :
           i > Len(PriorPrices) - (window_size - 1)
               => PriorPrices[i] = MidPrice(TargetBook)

\* C6: in every cycle fed the flat price that already fills the window, the
\* call returns, the standard deviation is zero, z is 0, no order is emitted
\* and no tracked position changes
C6_FlatMarket ==
    FlatFed =>
        /\ ~ret.raised
        /\ FlatWindow
        /\ ExactV = 0
        /\ z_score(MidPrice(TargetBook), LastN(NewPrices, window_size)).sign = 0
        /\ z_score(MidPrice(TargetBook), LastN(NewPrices, window_size)).num = 0
        /\ ret.result[target_product] = <<>>
        /\ TrackedPosition(ret.traderData) = TrackedPosition(PriorBlob)

C6_Witness ==
    /\ FlatFed /\ ~ret.raised /\ FlatWindow
    /\ invoked = window_size + 2
    /\ \A i \in 1..Len(NewPrices) : NewPrices[i] = MidPrice(TargetBook)
    /\ ret.result[target_product] = <<>>

----------------------------------------------------------------------------
(* Any prior blob *)

RainforestCalled == last.fn = "rainforest" \/ StrategyRan
ModelCalled == last.fn = "model"
GivenBlob == IF LastRun THEN PriorBlob ELSE last.trader_data
GivenMid == IF LastRun THEN MidPrice(TargetBook) ELSE last.mid_price
ReturnedBlob == IF LastRun THEN ret.traderData ELSE ret.new_trader_data
ReturnedOrders == IF LastRun THEN ret.result[target_product] ELSE ret.orders
Decodes(blob) == "json" \in DOMAIN blob
DecodesToRecord(blob) == Decodes(blob) /\ IsObj(blob.json)

\* a list of numbers
NumberList(v) == IsList(v) /\ \A i \in DOMAIN v.list : IsNum(v.list[i])

\* C7: whatever the prior blob, a mean-reversion cycle returns, and returns
\* a blob that decodes to a record whose rainforest_prices is a list of
\* numbers ending with the current mid-price (the list being that
\* mid-price alone when the prior blob held no list of numbers)
C7_RainforestNeverRaises ==
    RainforestCalled =>
        /\ ~ret.raised
        /\ DecodesToRecord(ReturnedBlob)
        /\ RainforestKey \in DOMAIN ReturnedBlob.json.obj
        /\ NumberList(ReturnedBlob.json.obj[RainforestKey])
        /\ LET prices == RainforestPrices(ReturnedBlob)
               kept == DecodesToRecord(GivenBlob)
                       /\ RainforestKey \in DOMAIN GivenBlob.json.obj
                       /\ NumberList(GivenBlob.json.obj[RainforestKey])
           IN  IF kept THEN prices = Append(RainforestPrices(GivenBlob), GivenMid)
               ELSE prices = <<GivenMid>>

\* the pre-trained parameters, a number, a list of numbers
WellFormed(key, v) ==
    IF key = "model_params" THEN v = ModelParams
    ELSE IF key = "position" THEN IsNum(v)
    ELSE NumberList(v)

\* the blobs C8 speaks of: a text that does not decode, a JSON document that
\* is no record, or a record that lacks some of the keys of the strategy
\* and holds well-formed values under the others
LacksModelKeys(blob) ==
    DecodesToRecord(blob) =>
        \A key \in ModelKeys \cap DOMAIN blob.json.obj :
            WellFormed(key, blob.json.obj[key])

\* C8: on such a blob the autoregressive strategy returns, and returns a
\* blob that decodes to a record holding the three keys, each well-formed:
\* a missing model_history starts from the current mid-price alone, a
\* missing model_params is the pre-trained parameters
C8_ModelNeverRaises ==
    (ModelCalled /\ LacksModelKeys(GivenBlob)) =>
        /\ ~ret.raised
        /\ DecodesToRecord(ReturnedBlob)
        /\ \A key \in ModelKeys :
               /\ key \in DOMAIN ReturnedBlob.json.obj
               /\ WellFormed(key, ReturnedBlob.json.obj[key])
        /\ LET had(key) == DecodesToRecord(GivenBlob)
                           /\ key \in DOMAIN GivenBlob.json.obj
               new == ReturnedBlob.json.obj
           IN  /\ ~had("model_history") => new["model_history"].list = <<GivenMid>>
               /\ ~had("model_params") => new["model_params"] = ModelParams
               /\ (~had("position") /\ ReturnedOrders = <<>>)
                      => new["position"] = Num(0)

\* the keys the called strategy owns
OwnedKeys == IF ModelCalled THEN ModelKeys ELSE {RainforestKey}

\* every key of the given record that the called strategy does not own is
\* in the returned record with the value it had
UnknownKeysKept ==
    /\ DecodesToRecord(ReturnedBlob)
    /\ \A key \in DOMAIN GivenBlob.json.obj \ OwnedKeys :
           /\ key \in DOMAIN ReturnedBlob.json.obj
           /\ ReturnedBlob.json.obj[key] = GivenBlob.json.obj[key]

\* the calls that return keep the keys they do not own
ReturnedKeepsUnknownKeys ==
    ((RainforestCalled \/ ModelCalled) /\ DecodesToRecord(GivenBlob)
        /\ ~ret.raised) => UnknownKeysKept

\* C9: whenever a strategy is called with a blob that decodes to a record,
\* it returns a blob, and every key of the record that the strategy does
\* not own is in the returned record with the value it had
C9_UnknownKeysSurvive ==
    ((RainforestCalled \/ ModelCalled) /\ DecodesToRecord(GivenBlob)) =>
        /\ ~ret.raised
        /\ UnknownKeysKept

----------------------------------------------------------------------------
(* The autoregressive strategy from the empty blob *)

Position == traderData.json.obj["position"]

\* C10: after any sequence of autoregressive cycles from the empty blob, the
\* persisted position is a number between -max_position and max_position
C10_PositionCap ==
    /\ ~ret.raised
    /\ Decodes(traderData) =>
           /\ IsNum(Position)
           /\ -max_position <= Position.num
           /\ Position.num <= max_position

C10_Witness ==
    /\ ModelCalled /\ ~ret.raised
    /\ ret.orders # <<>>
    /\ ret.orders[1].quantity = -(2 * max_position)
    /\ Position.num = -max_position

\* the position a blob holds for the autoregressive strategy, 0 while the
\* blob holds none
HeldPosition(blob) ==
    IF DecodesToRecord(blob) /\ "position" \in DOMAIN blob.json.obj
    THEN blob.json.obj["position"].num
    ELSE 0

\* the observations a blob holds for the autoregressive strategy
HeldPrices(blob) ==
    IF DecodesToRecord(blob) /\ "model_history" \in DOMAIN blob.json.obj
    THEN blob.json.obj["model_history"].list
    ELSE <<>>

\* the history of the cycle: the held observations and the current mid-price
CyclePrices == Append(HeldPrices(GivenBlob), GivenMid)
Lagged == LastN(CyclePrices, lag)

\* the deviation of the cycle, in units of 1 / (2 * Scale), lies strictly
\* between DevLo and DevLo + 1
DevLo ==
    Intercept2Lo
    + Coefficients[1] * Lagged[1].num + Coefficients[2] * Lagged[2].num
    + Coefficients[3] * Lagged[3].num + Coefficients[4] * Lagged[4].num
    - Scale * GivenMid.num
DevAbove == DevLo >= 2 * Scale * threshold
DevBelow == DevLo + 1 <= -(2 * Scale * threshold)

PositionBefore == HeldPosition(GivenBlob)
PositionAfter == HeldPosition(ReturnedBlob)
GivenBook == last.order_depth

\* C11: in an autoregressive cycle with at least lag observations: a
\* deviation above the threshold, with an ask in the book and a position
\* below max_position, gives one BUY of max_position - position at the best
\* ask and the position max_position; a deviation below -threshold, with a
\* bid and a position above -max_position, gives one SELL of position +
\* max_position at the best bid and the position -max_position; every other
\* cycle gives no order and leaves the position
C11_ModelOrders ==
    (ModelCalled /\ Len(CyclePrices) >= lag) =>
        /\ ~ret.raised
        /\ IF DevAbove /\ Asks(GivenBook) # {} /\ PositionBefore < max_position
           THEN /\ ret.orders = <<Order(target_product, Min(Asks(GivenBook)),
                                        max_position - PositionBefore)>>
                /\ PositionAfter = max_position
           ELSE IF DevBelow /\ Bids(GivenBook) # {}
                   /\ PositionBefore > -max_position
           THEN /\ ret.orders = <<Order(target_product, Max(Bids(GivenBook)),
                                        -(PositionBefore + max_position))>>
                /\ PositionAfter = -max_position
           ELSE /\ ret.orders = <<>>
                /\ PositionAfter = PositionBefore

C11_Witness ==
    /\ ModelCalled /\ ~ret.raised
    /\ Len(CyclePrices) >= lag
    /\ DevAbove
    /\ PositionBefore = 0
    /\ ret.orders = <<Order(target_product, 1, max_position)>>
    /\ PositionAfter = max_position

\* C12: from the empty blob, a cycle of the autoregressive strategy whose
\* history holds fewer than lag observations emits no order and leaves the
\* position, whatever the book and the mid-price
C12_ModelWarmUp ==
    (ModelCalled /\ Len(CyclePrices) < lag) =>
        /\ ~ret.raised
        /\ ret.orders = <<>>
        /\ PositionAfter = PositionBefore
        /\ HeldPrices(ReturnedBlob) = CyclePrices

C12_Witness ==
    /\ ModelCalled /\ ~ret.raised
    /\ CyclePrices = <<Num(6), Num(6), Num(2)>>
    /\ Asks(GivenBook) # {} /\ Bids(GivenBook) # {}
    /\ ret.orders = <<>>
    /\ PositionAfter = 0

\* values of base_quantity, each a divisor of Scale
BaseQuantities == {1, base_quantity, 2 * base_quantity}

\* the deviations of the windows of lag observations, the last of them the
\* current mid-price
AltDeviations ==
    {deviation(w[lag], w) : w \in [1..lag -> {Num(mid) : mid \in Mids}]}

\* the deviation of the cycle, as the strategy computes it
CycleDeviation == deviation(GivenMid, Lagged)

\* dev lies beyond the threshold on the side of the deviation of the cycle
SameSide(dev) ==
    /\ DeviationAbove(dev) = DeviationAbove(CycleDeviation)
    /\ DeviationBelow(dev) = DeviationBelow(CycleDeviation)

\* C13: a cycle of the autoregressive strategy whose deviation is beyond the
\* threshold returns the order and the position of every cycle with the
\* same prior position, the same book, any deviation beyond the threshold
\* on the same side and any base_quantity
C13_QuantityUnread ==
    (ModelCalled /\ ~ret.raised /\ Len(CyclePrices) >= lag
        /\ (DevAbove \/ DevBelow)) =>
        \A base \in BaseQuantities, dev \in AltDeviations :
            SameSide(dev) =>
                LET other == ModelSignalWith(base, target_product, GivenBook,
                                 dev, LoadModelHistory(GivenBlob))
                IN  /\ ~other.raised
                    /\ other.orders = ret.orders
                    /\ other.history.obj["position"].num = PositionAfter

C13_Witness ==
    /\ ModelCalled /\ ~ret.raised /\ Len(CyclePrices) >= lag
    /\ DevAbove
    /\ ret.orders # <<>>
    /\ PositionBefore = -max_position
    /\ \E base \in BaseQuantities, dev \in AltDeviations :
           /\ SameSide(dev)
           /\ OrderQuantity(base, dev) # order_quantity(CycleDeviation)
           /\ OrderQuantity(base, dev) < max_position
           /\ order_quantity(CycleDeviation) < max_position

\* C14: in every cycle in which the autoregressive strategy emits an order,
\* the absolute value of the position after the cycle is no greater than
\* its absolute value before the cycle
C14_TowardsNeutral ==
    (ModelCalled /\ ~ret.raised /\ ret.orders # <<>>) =>
        Abs(PositionAfter) <= Abs(PositionBefore)

\* what the orders do to the position: every order leaves it at
\* max_position or -max_position, never nearer to 0 than it was
OrdersReachTheCap ==
    (ModelCalled /\ ~ret.raised /\ ret.orders # <<>>) =>
        /\ Abs(PositionAfter) = max_position
        /\ Abs(PositionAfter) >= Abs(PositionBefore)

----------------------------------------------------------------------------
(* The capping trader beside the coded one *)

\* C15: on the same snapshots from the empty blob, the coded trader and the
\* trader that caps its stored history to window_size entries return the
\* same order lists in every cycle, and the capped history is the last
\* window_size entries of the uncapped one
C15_CapUnobservable ==
    LastRun =>
        /\ ~ret.raised /\ ~capped.ret.raised
        /\ capped.ret.result = ret.result
        /\ capped.ret.conversions = ret.conversions
        /\ Decodes(capped.traderData) = Decodes(traderData)
        /\ Decodes(traderData) =>
               RainforestPrices(capped.traderData)
                   = CapTo(RainforestPrices(traderData))

C15_Witness ==
    /\ LastRun /\ ~ret.raised /\ ~capped.ret.raised
    /\ TargetPresent
    /\ Decodes(traderData) /\ Decodes(capped.traderData)
    /\ Len(RainforestPrices(traderData)) = window_size + 2
    /\ Len(RainforestPrices(capped.traderData)) = window_size
    /\ ret.result[target_product] # <<>>
    /\ capped.ret.result = ret.result

----------------------------------------------------------------------------
(* The stored history of the mean-reversion strategy *)

\* C16: in every cycle of Trader.run in which the target has a known
\* mid-price, the returned history is the prior history with the current
\* mid-price appended, whether or not an order is emitted, and its length is
\* the number of cycles so far in which the target had a known mid-price
C16_AppendOnly ==
    (LastRun /\ TargetPresent /\ MidPrice(TargetBook) # None) =>
        /\ ~ret.raised
        /\ RainforestPrices(ret.traderData)
               = Append(PriorPrices, MidPrice(TargetBook))
        /\ Len(RainforestPrices(ret.traderData)) = invoked
        /\ traderData = ret.traderData

C16_Witness ==
    /\ LastRun /\ TargetPresent /\ MidPrice(TargetBook) # None
    /\ ~ret.raised
    /\ ret.result[target_product] # <<>>
    /\ Len(PriorPrices) = window_size
    /\ RainforestPrices(ret.traderData)
           = Append(PriorPrices, MidPrice(TargetBook))
    /\ invoked = window_size + 1
    /\ cycles = window_size + 2

----------------------------------------------------------------------------
(* The sizes of the orders of the mean-reversion strategy *)

----------------------------------------------------------------------------
(* The orders of the autoregressive strategy from the empty blob *)

Sign(x) == IF x > 0 THEN 1 ELSE IF x < 0 THEN -1 ELSE 0

\* C18: over any sequence of autoregressive cycles from the empty blob, the
\* persisted position is -max_position, 0 or max_position, the first order
\* emitted has the absolute quantity max_position, every later one has the
\* absolute quantity 2 * max_position, and each order has the direction
\* opposite to the order emitted before it
C18_Alternation ==
    /\ ~ret.raised
    /\ HeldPosition(traderData) \in {-max_position, 0, max_position}
    /\ (orderLog = <<>>) = (HeldPosition(traderData) = 0)
    /\ \A i \in DOMAIN orderLog :
           /\ i = 1 => Abs(orderLog[i]) = max_position
           /\ i > 1 => /\ Abs(orderLog[i]) = 2 * max_position
                       /\ Sign(orderLog[i]) = -Sign(orderLog[i - 1])
           /\ i = Len(orderLog) =>
                  HeldPosition(traderData) = Sign(orderLog[i]) * max_position

C18_Witness ==
    /\ ModelCalled /\ ~ret.raised
    /\ orderLog = <<-max_position, 2 * max_position>>
    /\ ret.orders # <<>>
    /\ ret.orders[1].quantity = 2 * max_position
    /\ HeldPosition(traderData) = max_position

====
